---- MODULE Spec2Model ----
(***************************************************************************)
(* The JNI binding of org.tron.leveldb (src/jni/leveldbjni.cc): one DB     *)
(* object, one DBIterator object and one WriteBatch object of the managed  *)
(* side, the native objects they point to, and the storage engine the      *)
(* binding forwards to.  Every native method is one action; the methods   *)
(* of DB are also given statement by statement, for two threads.           *)
(***************************************************************************)
EXTENDS Integers, Sequences, FiniteSets, TLC

\* ------------------------------------------------------------------ bounds
\* Number of distinct keys callers use.
MaxKeys == 2
\* Number of store methods each thread calls while threads run side by side.
MaxCalls == 2

\* ----------------------------------------------------------- byte arrays
\* The null pointer / the value 0 of a jlong handle field.
Null == 0
\* Native pointers, as stored in the jlong fields.
DbPtr == 1
IterPtr == 2
BatchPtr == 3
ComparatorPtr == 4
LoggerPtr == 5

\* Java byte arrays hold signed bytes.
JKeyList == << <<1>>, <<-56>>, <<1, 0>>, <<-1>> >>
JKeys == {JKeyList[i] : i \in 1..MaxKeys}
JValueList == << <<7>>, <<-1, 0>> >>
JValues == {JValueList[i] : i \in 1..Len(JValueList)}

\* reinterpret_cast<const char*>(GetByteArrayElements(..)) read as the bytes of
\* a Slice: the engine compares them as unsigned chars.
ToChar(jb) == (jb + 256) % 256
ToSlice(ja) == [i \in 1..Len(ja) |-> ToChar(ja[i])]

\* NewByteArray(size) + SetByteArrayRegion(.., reinterpret_cast<const jbyte*>):
\* the bytes of a Slice or std::string as a Java byte[].
ToJByte(c) == IF c >= 128 THEN c - 256 ELSE c
ToJByteArray(s) == [i \in 1..Len(s) |-> ToJByte(s[i])]

Keys == {ToSlice(k) : k \in JKeys}
Values == {ToSlice(v) : v \in JValues}
\* Marks a key the store does not hold.
Absent == <<256>>
EmptyData == [k \in Keys |-> Absent]
\* Marks a key a WriteBatch holds no record for.
Untouched == <<258>>
EmptyBatch == [k \in Keys |-> Untouched]

\* The contents a store on disk may have before the program starts: any subset
\* of the keys, each with one of the values.
InitialDatasets ==
    { [k \in Keys |->
         IF k \in {ToSlice(JKeyList[i]) : i \in S}
         THEN ToSlice(JValueList[(k[1] % 2) + 1])
         ELSE Absent] : S \in SUBSET (1..MaxKeys) }

\* ------------------------------------------------------------ comparators
\* Three-way lexicographic comparison of two integer sequences.
RECURSIVE LexCompare(_, _)
LexCompare(a, b) ==
    IF a = <<>> /\ b = <<>> THEN 0
    ELSE IF a = <<>> THEN -1
    ELSE IF b = <<>> THEN 1
    ELSE IF Head(a) < Head(b) THEN -1
    ELSE IF Head(a) > Head(b) THEN 1
    ELSE LexCompare(Tail(a), Tail(b))

\* The engine's default comparator: memcmp order on unsigned bytes.
BytewiseCompare(a, b) == LexCompare(a, b)

\* The caller's DBComparator.compare(byte[], byte[]): signed byte order.
JavaCompare(ja, jb) == LexCompare(ja, jb)

\* JavaComparator::Compare: both slices become Java byte[] and the Java
\* comparator decides.
JavaComparator_Compare(a, b) == JavaCompare(ToJByteArray(a), ToJByteArray(b))

\* The comparison the engine uses for a store opened with comparator cmp.
Compare(cmp, a, b) ==
    IF cmp = "java" THEN JavaComparator_Compare(a, b) ELSE BytewiseCompare(a, b)

\* ---------------------------------------------------------------- options
\* The managed Options objects callers pass to init.
JOptionsSet ==
    { [createIfMissing |-> TRUE, errorIfExists |-> FALSE, paranoidChecks |-> FALSE,
       compressionType |-> 1, blockSize |-> 4096, writeBufferSize |-> 4194304,
       cacheSize |-> 8388608, maxOpenFiles |-> 1000,
       comparator |-> "null", logger |-> "null"],
      [createIfMissing |-> TRUE, errorIfExists |-> TRUE, paranoidChecks |-> TRUE,
       compressionType |-> 0, blockSize |-> 1024, writeBufferSize |-> 65536,
       cacheSize |-> 0, maxOpenFiles |-> 64,
       comparator |-> "java", logger |-> "jlog"],
      [createIfMissing |-> FALSE, errorIfExists |-> FALSE, paranoidChecks |-> TRUE,
       compressionType |-> 1, blockSize |-> 4096, writeBufferSize |-> 65536,
       cacheSize |-> 8388608, maxOpenFiles |-> 64,
       comparator |-> "null", logger |-> "jlog"] }

\* Marks "init has not called DB::Open" in the history variables.
NoOptions == [none |-> TRUE]

\* A default-constructed leveldb::Options.
DefaultOptions ==
    [create_if_missing |-> FALSE, error_if_exists |-> FALSE, paranoid_checks |-> FALSE,
     compression |-> 1, block_size |-> 4096, write_buffer_size |-> 4194304,
     block_cache_capacity |-> -1, max_open_files |-> 1000,
     comparator |-> "bytewise", info_log |-> "null"]

\* The name the comparator of a managed Options object goes by in the engine.
ComparatorOf(jo) == IF jo.comparator = "null" THEN "bytewise" ELSE "java"

\* The leveldb::Options that init builds from the managed Options object.
BuildOptions(jo) ==
    [DefaultOptions EXCEPT
       !.create_if_missing = jo.createIfMissing,
       !.paranoid_checks = jo.paranoidChecks,
       !.compression = jo.compressionType,
       !.block_size = jo.blockSize,
       !.write_buffer_size = jo.writeBufferSize,
       !.block_cache_capacity = jo.cacheSize,
       !.max_open_files = jo.maxOpenFiles,
       !.comparator = ComparatorOf(jo),
       !.info_log = jo.logger]

\* ----------------------------------------------------------------- engine
\* DB::Open: the statuses the engine may answer with.
EngineOpenStatuses(opts, d) ==
    IF ~d.exists
    THEN IF opts.create_if_missing THEN {"OK", "IOError"} ELSE {"InvalidArgument"}
    ELSE IF opts.error_if_exists THEN {"InvalidArgument"}
    ELSE IF opts.comparator # d.cmp THEN {"InvalidArgument"}
    ELSE {"OK", "IOError", "Corruption", "NotFound"}

\* DB::Put / DB::Delete / DB::Write: success, or a storage failure.
EngineWriteStatuses == {"OK", "IOError"}

\* DB::Get: what the store holds, or a failure of the read.
EngineGetStatuses(data, k) ==
    {IF data[k] = Absent THEN "NotFound" ELSE "OK", "Corruption", "IOError"}

\* ---------------------------------------------------------------- results
\* What a native method handed back to its caller: the exceptions it threw
\* (ThrowNew calls, in order), its return value, and the engine call it made.
NoRet == [kind |-> "void", a |-> <<>>, b |-> <<>>]
RetNull == [kind |-> "null", a |-> <<>>, b |-> <<>>]
RetBytes(ja) == [kind |-> "bytes", a |-> ja, b |-> <<>>]
RetEntry(jk, jv) == [kind |-> "entry", a |-> jk, b |-> jv]
RetBool(x) == [kind |-> "bool", a |-> IF x THEN <<1>> ELSE <<0>>, b |-> <<>>]
RetObject == [kind |-> "object", a |-> <<>>, b |-> <<>>]
RetString == [kind |-> "string", a |-> <<>>, b |-> <<>>]

\* The engine call a native method made: the function, the object pointer it
\* was given (a batch or an iterator), the key it was given, the status it
\* answered.
NoCall == [fn |-> "none", status |-> "none", arg |-> Null, key |-> <<>>]
Call(fn, st, arg) == [fn |-> fn, status |-> st, arg |-> arg, key |-> <<>>]
CallKey(fn, st, k) == [fn |-> fn, status |-> st, arg |-> Null, key |-> k]

\* ub names the undefined behaviour the method ran into, if any.
Result(op, exc, ret, call) ==
    [op |-> op, exc |-> exc, ret |-> ret, call |-> call, ub |-> "none"]
ResultUb(op, exc, ret, call, ub) ==
    [op |-> op, exc |-> exc, ret |-> ret, call |-> call, ub |-> ub]

\* check(env, status): the exceptions it throws.
check_throws(status) ==
    IF status = "OK" THEN <<>>
    ELSE IF status = "NotFound" THEN <<"FileNotFoundException">>
    ELSE IF status = "Corruption" THEN <<"IOException">>
    ELSE <<"RuntimeException">>

\* check(env, status): its return value.
check(status) == status = "OK"

\* throw_not_open
throw_not_open == <<"IllegalStateException: DB is not open">>

VARIABLES
    disk,        \* the store's files: exists, comparator name, contents
    phase,       \* "new": init not yet called; "inited": init has returned
    closed,      \* DB.close has returned
    nativeDb,    \* DB.nativeDb
    nativeComparator, \* DB.nativeComparator
    nativeLogger,     \* DB.nativeLogger
    joptions,    \* the Options object init was called with
    openArgs,    \* the leveldb::Options init passed to DB::Open
    openStatus,  \* the status DB::Open answered init with
    live,        \* native objects allocated and not deleted
    globalRefs,  \* JNI global references held
    res,         \* result of the last native method call
    crashed,     \* the process has been killed by undefined behaviour
    itExists,    \* a DBIterator object has been constructed
    itHandle,    \* DBIterator.nativeHandle
    itClosed,    \* DBIterator.close has returned
    itDeletes,   \* how many times the native Iterator was deleted
    it,          \* the native Iterator: snapshot, comparator, position, status
    batchExists, \* a WriteBatch object has been constructed
    batchHandle, \* WriteBatch.nativeHandle
    batchClosed, \* WriteBatch.close has returned
    batchDeletes,\* how many times the native WriteBatch was deleted
    wb,          \* the native WriteBatch: its operations in order
    drive,       \* the scan a caller is in the middle of: none, fwd, bwd
    step,        \* where that scan stands
    out,         \* the keys the scan has returned so far
    tpc,         \* per thread: the native method it is inside of, and where
    tdb,         \* per thread: the local DB* db it read from nativeDb
    tcalls,      \* per thread: how many store methods it has entered
    dbDeletes,   \* how many times the engine DB was deleted
    cmpEnv,      \* JavaComparator::env_: the thread whose JNIEnv it keeps
    logEnv,      \* JavaLogger::env_: the thread whose JNIEnv it keeps
    cb           \* the last callback the engine made into the managed side

dbVars == <<disk, phase, closed, nativeDb, nativeComparator, nativeLogger,
            joptions, openArgs, openStatus, globalRefs>>
iterVars == <<itExists, itHandle, itClosed, itDeletes, it>>
batchVars == <<batchExists, batchHandle, batchClosed, batchDeletes, wb>>
driveVars == <<drive, step, out>>
thrVars == <<tpc, tdb, tcalls, dbDeletes>>
cbVars == <<cmpEnv, logEnv, cb>>
vars == <<dbVars, live, res, crashed, iterVars, batchVars, driveVars, thrVars,
          cbVars>>

\* The threads of the managed program that call native methods.
Threads == {"T1", "T2"}
\* The thread that constructs the DB object, and runs the methods that are
\* modelled as one step.
MainThread == "T1"
\* The engine's own thread for flushes and compactions.
BackgroundThread == "background"
\* No callback made yet.
NoCallback == [fn |-> "none", thread |-> "none", env |-> "none", ub |-> "none"]

\* The position of an Iterator that is not Valid().
NoPos == <<257>>
NoIter == [snap |-> EmptyData, cmp |-> "bytewise", pos |-> NoPos, status |-> "OK"]

Init ==
    /\ disk \in {[exists |-> FALSE, cmp |-> "none", data |-> EmptyData]}
                \cup {[exists |-> TRUE, cmp |-> c, data |-> d] :
                         c \in {"bytewise", "java"}, d \in InitialDatasets}
    /\ phase = "new"
    /\ closed = FALSE
    /\ nativeDb = Null
    /\ nativeComparator = Null
    /\ nativeLogger = Null
    /\ joptions = NoOptions
    /\ openArgs = NoOptions
    /\ openStatus = "none"
    /\ live = {}
    /\ globalRefs = {}
    /\ res = Result("none", <<>>, NoRet, NoCall)
    /\ crashed = FALSE
    /\ itExists = FALSE
    /\ itHandle = Null
    /\ itClosed = FALSE
    /\ itDeletes = 0
    /\ it = NoIter
    /\ batchExists = FALSE
    /\ batchHandle = Null
    /\ batchClosed = FALSE
    /\ batchDeletes = 0
    /\ wb = EmptyBatch
    /\ drive = "none"
    /\ step = "none"
    /\ out = <<>>
    /\ tpc = [t \in Threads |-> "idle"]
    /\ tdb = [t \in Threads |-> Null]
    /\ tcalls = [t \in Threads |-> 0]
    /\ dbDeletes = 0
    /\ cmpEnv = "none"
    /\ logEnv = "none"
    /\ cb = NoCallback

\* A call that only hands a result back.
Returns(r) == res' = r /\ UNCHANGED <<dbVars, live, crashed, iterVars, batchVars>>

\* The process dies inside native method op.
Crash(op, call, ub) ==
    /\ crashed' = TRUE
    /\ res' = ResultUb(op, <<>>, NoRet, call, ub)
    /\ UNCHANGED <<dbVars, live, iterVars, batchVars, driveVars>>

\* Calling into a DB that has been deleted is a use after free.
DbUb == IF "db" \in live THEN "none" ELSE "use-after-free"

\* The exceptions init throws for the status of DB::Open.
init_throws(status) ==
    IF status = "InvalidArgument" THEN <<"FileNotFoundException">>
    ELSE check_throws(status)

\* init as it would be if it stored the pointer whenever Open did not answer
\* InvalidArgument, the result of check() ignored.
init_sets_handle_unchecked(status) == status # "InvalidArgument"

\* Whether init stores the engine pointer in nativeDb.
init_sets_handle(status) ==
    IF status = "InvalidArgument" THEN FALSE ELSE check(status)

\* Java_org_tron_leveldb_DB_init
DB_init ==
    /\ ~crashed
    /\ UNCHANGED <<thrVars, cb>>
    /\ phase = "new"
    /\ \E jo \in JOptionsSet :
         LET opts == BuildOptions(jo) IN
         \E st \in EngineOpenStatuses(opts, disk) :
           /\ joptions' = jo
           /\ openArgs' = opts
           /\ openStatus' = st
           /\ live' = live \cup {"cache"}
                        \cup (IF jo.comparator # "null" THEN {"comparator"} ELSE {})
                        \cup (IF jo.logger # "null" THEN {"logger"} ELSE {})
                        \cup (IF st = "OK" THEN {"db"} ELSE {})
           /\ globalRefs' = globalRefs
                        \cup (IF jo.comparator # "null" THEN {"comparator"} ELSE {})
                        \cup (IF jo.logger # "null" THEN {"logger"} ELSE {})
           /\ nativeComparator' =
                 IF jo.comparator # "null" THEN ComparatorPtr ELSE nativeComparator
           /\ nativeLogger' = IF jo.logger # "null" THEN LoggerPtr ELSE nativeLogger
           /\ cmpEnv' = IF jo.comparator # "null" THEN MainThread ELSE cmpEnv
           /\ logEnv' = IF jo.logger # "null" THEN MainThread ELSE logEnv
           /\ nativeDb' = IF init_sets_handle(st) THEN DbPtr ELSE nativeDb
           /\ disk' = IF st = "OK" /\ ~disk.exists
                      THEN [disk EXCEPT !.exists = TRUE, !.cmp = opts.comparator]
                      ELSE disk
           /\ res' = Result("init", init_throws(st), NoRet, Call("Open", st, Null))
    /\ phase' = "inited"
    /\ UNCHANGED <<closed, crashed, iterVars, batchVars, driveVars>>

\* DB_close as it would be without the final SetLongField(nativeDb, 0).
DB_close_keeps_handle ==
    /\ ~crashed
    /\ UNCHANGED <<tpc, tdb, tcalls, cbVars>>
    /\ phase = "inited"
    /\ live' = IF nativeDb # Null THEN live \ {"db"} ELSE live
    /\ dbDeletes' = IF nativeDb # Null THEN dbDeletes + 1 ELSE dbDeletes
    /\ closed' = TRUE
    /\ res' = Result("close", <<>>, NoRet, NoCall)
    /\ UNCHANGED <<disk, phase, nativeDb, nativeComparator, nativeLogger, joptions,
                   openArgs, openStatus, globalRefs, crashed, iterVars, batchVars,
                   driveVars>>

\* Java_org_tron_leveldb_DB_close
DB_close ==
    /\ ~crashed
    /\ UNCHANGED <<tpc, tdb, tcalls, cbVars>>
    /\ phase = "inited"
    /\ live' = IF nativeDb # Null THEN live \ {"db"} ELSE live
    /\ dbDeletes' = IF nativeDb # Null THEN dbDeletes + 1 ELSE dbDeletes
    /\ nativeDb' = Null
    /\ closed' = TRUE
    /\ res' = Result("close", <<>>, NoRet, NoCall)
    /\ UNCHANGED <<disk, phase, nativeComparator, nativeLogger, joptions,
                   openArgs, openStatus, globalRefs, crashed, iterVars, batchVars,
                   driveVars>>

\* The store contents after DB::Put(k, v) answered st.
PutData(data, k, v, st) == IF st = "OK" THEN [data EXCEPT ![k] = v] ELSE data

\* The store contents after DB::Delete(k) answered st.
DeleteData(data, k, st) == IF st = "OK" THEN [data EXCEPT ![k] = Absent] ELSE data

\* What put (both overloads) hands back after DB::Put answered st.
put_result(op, k, st) == Result(op, <<>>, NoRet, CallKey("Put", st, k))

\* Java_org_tron_leveldb_DB_put___3B_3B
DB_put ==
    /\ ~crashed
    /\ UNCHANGED <<thrVars, cbVars>>
    /\ phase = "inited"
    /\ IF nativeDb = Null
       THEN Returns(Result("put", throw_not_open, NoRet, NoCall))
       ELSE \E jk \in JKeys, jv \in JValues, st \in EngineWriteStatuses :
              /\ disk' = [disk EXCEPT !.data = PutData(@, ToSlice(jk), ToSlice(jv), st)]
              /\ res' = [put_result("put", ToSlice(jk), st) EXCEPT !.ub = DbUb]
              /\ UNCHANGED <<phase, closed, nativeDb, nativeComparator, nativeLogger,
                             joptions, openArgs, openStatus, globalRefs, live, crashed,
                             iterVars, batchVars>>
    /\ UNCHANGED driveVars

\* Java_org_tron_leveldb_DB_put___3B_3BZ
DB_putSync ==
    /\ ~crashed
    /\ UNCHANGED <<thrVars, cbVars>>
    /\ phase = "inited"
    /\ IF nativeDb = Null
       THEN Returns(Result("putSync", throw_not_open, NoRet, NoCall))
       ELSE \E jk \in JKeys, jv \in JValues, sync \in BOOLEAN,
               st \in EngineWriteStatuses :
              /\ disk' = [disk EXCEPT !.data = PutData(@, ToSlice(jk), ToSlice(jv), st)]
              /\ res' = [put_result("putSync", ToSlice(jk), st) EXCEPT !.ub = DbUb]
              /\ UNCHANGED <<phase, closed, nativeDb, nativeComparator, nativeLogger,
                             joptions, openArgs, openStatus, globalRefs, live, crashed,
                             iterVars, batchVars>>
    /\ UNCHANGED driveVars

\* get as it would be without the early return on IsNotFound(): check() would
\* turn an absent key into a FileNotFoundException.
get_result_checks_not_found(k, st, value) ==
    IF check(st)
    THEN Result("get", check_throws(st), RetBytes(ToJByteArray(value)),
                CallKey("Get", st, k))
    ELSE Result("get", check_throws(st), RetNull, CallKey("Get", st, k))

\* What get hands back after DB::Get(k) answered st with value.
get_result(k, st, value) ==
    IF st = "NotFound" THEN Result("get", <<>>, RetNull, CallKey("Get", st, k))
    ELSE IF check(st)
    THEN Result("get", check_throws(st), RetBytes(ToJByteArray(value)),
                CallKey("Get", st, k))
    ELSE Result("get", check_throws(st), RetNull, CallKey("Get", st, k))

\* Java_org_tron_leveldb_DB_get
DB_get ==
    /\ ~crashed
    /\ UNCHANGED <<thrVars, cbVars>>
    /\ phase = "inited"
    /\ IF nativeDb = Null
       THEN Returns(Result("get", throw_not_open, RetNull, NoCall))
       ELSE \E jk \in JKeys :
            \E st \in EngineGetStatuses(disk.data, ToSlice(jk)) :
              Returns([get_result(ToSlice(jk), st, disk.data[ToSlice(jk)])
                         EXCEPT !.ub = DbUb])
    /\ UNCHANGED driveVars

\* What delete hands back after DB::Delete answered st.
delete_result(k, st) == Result("delete", <<>>, NoRet, CallKey("Delete", st, k))

\* Java_org_tron_leveldb_DB_delete
DB_delete ==
    /\ ~crashed
    /\ UNCHANGED <<thrVars, cbVars>>
    /\ phase = "inited"
    /\ IF nativeDb = Null
       THEN Returns(Result("delete", throw_not_open, NoRet, NoCall))
       ELSE \E jk \in JKeys, sync \in BOOLEAN, st \in EngineWriteStatuses :
              /\ disk' = [disk EXCEPT !.data = DeleteData(@, ToSlice(jk), st)]
              /\ res' = [delete_result(ToSlice(jk), st) EXCEPT !.ub = DbUb]
              /\ UNCHANGED <<phase, closed, nativeDb, nativeComparator, nativeLogger,
                             joptions, openArgs, openStatus, globalRefs, live, crashed,
                             iterVars, batchVars>>
    /\ UNCHANGED driveVars

\* Java_org_tron_leveldb_DB_getProperty
DB_getProperty ==
    /\ ~crashed
    /\ UNCHANGED <<thrVars, cbVars>>
    /\ phase = "inited"
    /\ IF nativeDb = Null
       THEN Returns(Result("getProperty", throw_not_open, RetNull, NoCall))
       ELSE Returns([Result("getProperty", <<>>, RetString,
                            Call("GetProperty", "none", Null)) EXCEPT !.ub = DbUb])
    /\ UNCHANGED driveVars

\* Java_org_tron_leveldb_DB_createWriteBatch
DB_createWriteBatch ==
    /\ ~crashed
    /\ UNCHANGED <<thrVars, cbVars>>
    /\ phase = "inited"
    /\ ~batchExists
    /\ IF nativeDb = Null
       THEN Returns(Result("createWriteBatch", throw_not_open, RetNull, NoCall))
       ELSE /\ batchExists' = TRUE
            /\ batchHandle' = BatchPtr
            /\ wb' = EmptyBatch
            /\ live' = live \cup {"batch"}
            /\ res' = Result("createWriteBatch", <<>>, RetObject, NoCall)
            /\ UNCHANGED <<dbVars, crashed, iterVars, batchClosed, batchDeletes>>
    /\ UNCHANGED driveVars

\* DB::Write applies the records of the batch in order.  The batch is kept as
\* the net effect of its records (for each key the last record wins), so the
\* store takes, for every key the batch has a record for, what that record says.
ApplyBatch(data, batch) ==
    [k \in Keys |-> IF batch[k] = Untouched THEN data[k] ELSE batch[k]]

\* What write hands back after DB::Write(batch) answered st.
write_result(st, batch) == Result("write", check_throws(st), NoRet, Call("Write", st, batch))

\* Java_org_tron_leveldb_DB_write
DB_write ==
    /\ ~crashed
    /\ UNCHANGED <<thrVars, cbVars>>
    /\ phase = "inited"
    /\ batchExists
    /\ IF nativeDb = Null
       THEN Returns(Result("write", throw_not_open, NoRet, NoCall)) /\ UNCHANGED driveVars
       ELSE \E sync \in BOOLEAN :
            IF batchHandle = Null
            THEN \* DB::Write dereferences the null WriteBatch*
                 \/ Crash("write", Call("Write", "none", Null), "null-batch")
                 \/ \E st \in EngineWriteStatuses :
                      /\ Returns([write_result(st, Null) EXCEPT !.ub = "null-batch"])
                      /\ UNCHANGED driveVars
            ELSE \E st \in EngineWriteStatuses :
                   /\ disk' = IF st = "OK"
                              THEN [disk EXCEPT !.data = ApplyBatch(@, wb)]
                              ELSE disk
                   /\ res' = [write_result(st, batchHandle) EXCEPT !.ub = DbUb]
                   /\ UNCHANGED <<phase, closed, nativeDb, nativeComparator,
                                  nativeLogger, joptions, openArgs, openStatus, globalRefs, live,
                                  crashed, iterVars, batchVars, driveVars>>

\* Java_org_tron_leveldb_DB_iterator
DB_iterator ==
    /\ ~crashed
    /\ UNCHANGED <<thrVars, cbVars>>
    /\ phase = "inited"
    /\ ~itExists
    /\ IF nativeDb = Null
       THEN Returns(Result("iterator", throw_not_open, RetNull, NoCall))
       ELSE /\ itExists' = TRUE
            /\ itHandle' = IterPtr
            /\ it' = [snap |-> disk.data, cmp |-> disk.cmp, pos |-> NoPos,
                      status |-> "OK"]
            /\ live' = live \cup {"iter"}
            /\ res' = [Result("iterator", <<>>, RetObject,
                              Call("NewIterator", "none", Null)) EXCEPT !.ub = DbUb]
            /\ UNCHANGED <<dbVars, crashed, itClosed, itDeletes, batchVars>>
    /\ UNCHANGED driveVars

\* ------------------------------------------ store methods, statement by
\* statement.  The native methods take no lock, so when two threads are inside
\* methods of the same DB object their statements interleave.  Each method
\* first copies the field nativeDb into its local DB* db, and works on the
\* copy from then on.

\* The store methods that call into the engine DB through the local db.
ThreadOps == {"get", "put", "putSync", "delete", "getProperty", "iterator",
              "write"}

\* createWriteBatch reads nativeDb as well, and makes no call into the DB.
ThreadMethods == ThreadOps \cup {"close", "createWriteBatch"}

\* db = (DB*) env->GetLongField(obj, nativeDb): thread t enters method op.
DB_enter(t, op) ==
    /\ ~crashed
    /\ phase = "inited"
    /\ tpc[t] = "idle"
    /\ tcalls[t] < MaxCalls
    /\ tcalls' = [tcalls EXCEPT ![t] = @ + 1]
    /\ op = "iterator" => ~itExists /\ \A u \in Threads : tpc[u] # "iterator"
    /\ op = "createWriteBatch" =>
          ~batchExists /\ \A u \in Threads : tpc[u] # "createWriteBatch"
    /\ op = "write" => batchExists
    /\ tpc' = [tpc EXCEPT ![t] = op]
    /\ tdb' = [tdb EXCEPT ![t] = nativeDb]
    /\ UNCHANGED <<dbVars, live, res, crashed, iterVars, batchVars, driveVars,
                   dbDeletes, cbVars>>

\* Thread t leaves its method with result r.
DB_leave(t, r) ==
    /\ tpc' = [tpc EXCEPT ![t] = "idle"]
    /\ tdb' = [tdb EXCEPT ![t] = Null]
    /\ res' = r
    /\ UNCHANGED <<tcalls, dbDeletes, cbVars, crashed, driveVars>>

\* The process dies inside the method thread t is in.
DB_crash(t, call, ub) ==
    /\ Crash(tpc[t], call, ub)
    /\ UNCHANGED <<thrVars, cbVars>>

\* Deleting a DB that has been deleted already is a double free.
DeleteUb == IF "db" \in live THEN "none" ELSE "double-free"

\* if (db) delete db; of Java_org_tron_leveldb_DB_close, on thread t
DB_close_delete(t) ==
    /\ ~crashed
    /\ tpc[t] = "close"
    /\ IF tdb[t] = Null
       THEN /\ tpc' = [tpc EXCEPT ![t] = "close.set"]
            /\ UNCHANGED <<dbVars, live, res, crashed, iterVars, batchVars,
                           driveVars, tdb, tcalls, dbDeletes, cbVars>>
       ELSE \/ /\ live' = live \ {"db"}
               /\ dbDeletes' = dbDeletes + 1
               /\ tpc' = [tpc EXCEPT ![t] = "close.set"]
               /\ res' = ResultUb("close.delete", <<>>, NoRet,
                                  Call("~DB", "none", tdb[t]), DeleteUb)
               /\ UNCHANGED <<dbVars, crashed, iterVars, batchVars, driveVars,
                              tdb, tcalls, cbVars>>
            \/ /\ DeleteUb # "none"
               /\ DB_crash(t, Call("~DB", "none", tdb[t]), DeleteUb)

\* env->SetLongField(obj, nativeDb, 0) of Java_org_tron_leveldb_DB_close
DB_close_set(t) ==
    /\ ~crashed
    /\ tpc[t] = "close.set"
    /\ nativeDb' = Null
    /\ closed' = TRUE
    /\ DB_leave(t, Result("close", <<>>, NoRet, NoCall))
    /\ UNCHANGED <<disk, phase, nativeComparator, nativeLogger, joptions,
                   openArgs, openStatus, globalRefs, live, iterVars,
                         batchVars>>

\* Java_org_tron_leveldb_DB_get from its null check on, on thread t
DB_get_call(t) ==
    /\ ~crashed
    /\ tpc[t] = "get"
    /\ \/ /\ IF tdb[t] = Null
             THEN DB_leave(t, Result("get", throw_not_open, RetNull, NoCall))
             ELSE \E jk \in JKeys :
                  \E st \in EngineGetStatuses(disk.data, ToSlice(jk)) :
                    DB_leave(t, [get_result(ToSlice(jk), st, disk.data[ToSlice(jk)])
                                   EXCEPT !.ub = DbUb])
          /\ UNCHANGED <<dbVars, live, iterVars, batchVars>>
       \/ /\ tdb[t] # Null /\ DbUb # "none"
          /\ DB_crash(t, Call("Get", "none", tdb[t]), DbUb)

\* Java_org_tron_leveldb_DB_put from its null check on, on thread t
DB_put_call(t) ==
    /\ ~crashed
    /\ tpc[t] = "put"
    /\ \/ /\ IF tdb[t] = Null
             THEN /\ DB_leave(t, Result("put", throw_not_open, NoRet, NoCall))
                  /\ UNCHANGED disk
             ELSE \E jk \in JKeys, jv \in JValues, st \in EngineWriteStatuses :
                    /\ disk' = [disk EXCEPT
                                  !.data = PutData(@, ToSlice(jk), ToSlice(jv), st)]
                    /\ DB_leave(t, [put_result("put", ToSlice(jk), st)
                                      EXCEPT !.ub = DbUb])
          /\ UNCHANGED <<phase, closed, nativeDb, nativeComparator, nativeLogger,
                         joptions, openArgs, openStatus, globalRefs, live, iterVars,
                         batchVars>>
       \/ /\ tdb[t] # Null /\ DbUb # "none"
          /\ DB_crash(t, Call("Put", "none", tdb[t]), DbUb)

\* Java_org_tron_leveldb_DB_put___3B_3BZ from its null check on, on thread t
DB_putSync_call(t) ==
    /\ ~crashed
    /\ tpc[t] = "putSync"
    /\ \/ /\ IF tdb[t] = Null
             THEN /\ DB_leave(t, Result("putSync", throw_not_open, NoRet, NoCall))
                  /\ UNCHANGED disk
             ELSE \E jk \in JKeys, jv \in JValues, sync \in BOOLEAN,
                     st \in EngineWriteStatuses :
                    /\ disk' = [disk EXCEPT
                                  !.data = PutData(@, ToSlice(jk), ToSlice(jv), st)]
                    /\ DB_leave(t, [put_result("putSync", ToSlice(jk), st)
                                      EXCEPT !.ub = DbUb])
          /\ UNCHANGED <<phase, closed, nativeDb, nativeComparator, nativeLogger,
                         joptions, openArgs, openStatus, globalRefs, live, iterVars,
                         batchVars>>
       \/ /\ tdb[t] # Null /\ DbUb # "none"
          /\ DB_crash(t, Call("Put", "none", tdb[t]), DbUb)

\* Java_org_tron_leveldb_DB_write from its null check on, on thread t
DB_write_call(t) ==
    /\ ~crashed
    /\ tpc[t] = "write"
    /\ \/ /\ IF tdb[t] = Null
             THEN /\ DB_leave(t, Result("write", throw_not_open, NoRet, NoCall))
                  /\ UNCHANGED disk
             ELSE \E sync \in BOOLEAN, st \in EngineWriteStatuses :
                  IF batchHandle = Null
                  THEN /\ DB_leave(t, [write_result(st, Null)
                                         EXCEPT !.ub = "null-batch"])
                       /\ UNCHANGED disk
                  ELSE /\ disk' = IF st = "OK"
                                  THEN [disk EXCEPT !.data = ApplyBatch(@, wb)]
                                  ELSE disk
                       /\ DB_leave(t, [write_result(st, batchHandle)
                                         EXCEPT !.ub = DbUb])
          /\ UNCHANGED <<phase, closed, nativeDb, nativeComparator, nativeLogger,
                         joptions, openArgs, openStatus, globalRefs, live, iterVars,
                         batchVars>>
       \/ /\ tdb[t] # Null
          /\ \/ DbUb # "none" /\ DB_crash(t, Call("Write", "none", tdb[t]), DbUb)
             \/ batchHandle = Null
                  /\ DB_crash(t, Call("Write", "none", Null), "null-batch")

\* Java_org_tron_leveldb_DB_createWriteBatch from its null check on, on thread t
DB_createWriteBatch_call(t) ==
    /\ ~crashed
    /\ tpc[t] = "createWriteBatch"
    /\ IF tdb[t] = Null
       THEN /\ DB_leave(t, Result("createWriteBatch", throw_not_open, RetNull,
                                  NoCall))
            /\ UNCHANGED <<dbVars, live, iterVars, batchVars>>
       ELSE /\ batchExists' = TRUE
            /\ batchHandle' = BatchPtr
            /\ wb' = EmptyBatch
            /\ live' = live \cup {"batch"}
            /\ DB_leave(t, Result("createWriteBatch", <<>>, RetObject, NoCall))
            /\ UNCHANGED <<dbVars, iterVars, batchClosed, batchDeletes>>

\* Java_org_tron_leveldb_DB_delete from its null check on, on thread t
DB_delete_call(t) ==
    /\ ~crashed
    /\ tpc[t] = "delete"
    /\ \/ /\ IF tdb[t] = Null
             THEN /\ DB_leave(t, Result("delete", throw_not_open, NoRet, NoCall))
                  /\ UNCHANGED disk
             ELSE \E jk \in JKeys, sync \in BOOLEAN, st \in EngineWriteStatuses :
                    /\ disk' = [disk EXCEPT !.data = DeleteData(@, ToSlice(jk), st)]
                    /\ DB_leave(t, [delete_result(ToSlice(jk), st)
                                      EXCEPT !.ub = DbUb])
          /\ UNCHANGED <<phase, closed, nativeDb, nativeComparator, nativeLogger,
                         joptions, openArgs, openStatus, globalRefs, live, iterVars,
                         batchVars>>
       \/ /\ tdb[t] # Null /\ DbUb # "none"
          /\ DB_crash(t, Call("Delete", "none", tdb[t]), DbUb)

\* Java_org_tron_leveldb_DB_getProperty from its null check on, on thread t
DB_getProperty_call(t) ==
    /\ ~crashed
    /\ tpc[t] = "getProperty"
    /\ \/ /\ IF tdb[t] = Null
             THEN DB_leave(t, Result("getProperty", throw_not_open, RetNull, NoCall))
             ELSE DB_leave(t, [Result("getProperty", <<>>, RetString,
                                      Call("GetProperty", "none", Null))
                                 EXCEPT !.ub = DbUb])
          /\ UNCHANGED <<dbVars, live, iterVars, batchVars>>
       \/ /\ tdb[t] # Null /\ DbUb # "none"
          /\ DB_crash(t, Call("GetProperty", "none", tdb[t]), DbUb)

\* Java_org_tron_leveldb_DB_iterator from its null check on, on thread t
DB_iterator_call(t) ==
    /\ ~crashed
    /\ tpc[t] = "iterator"
    /\ \/ IF tdb[t] = Null
          THEN /\ DB_leave(t, Result("iterator", throw_not_open, RetNull, NoCall))
               /\ UNCHANGED <<dbVars, live, iterVars, batchVars>>
          ELSE /\ itExists' = TRUE
               /\ itHandle' = IterPtr
               /\ it' = [snap |-> disk.data, cmp |-> disk.cmp, pos |-> NoPos,
                         status |-> "OK"]
               /\ live' = live \cup {"iter"}
               /\ DB_leave(t, [Result("iterator", <<>>, RetObject,
                                      Call("NewIterator", "none", Null))
                                 EXCEPT !.ub = DbUb])
               /\ UNCHANGED <<dbVars, itClosed, itDeletes, batchVars>>
       \/ /\ tdb[t] # Null /\ DbUb # "none"
          /\ DB_crash(t, Call("NewIterator", "none", tdb[t]), DbUb)

\* ------------------------------------------ callbacks into the managed side
\* The engine calls the comparator on the thread of whichever foreground
\* operation needs an order of keys, and on its background worker while it
\* merges tables; it builds tables, and so shortens index keys, on the
\* background worker; it logs from both.  These are the callbacks made after
\* init has returned; the ones DB::Open makes run inside init.
ForegroundThreads == Threads
CompareThreads == ForegroundThreads \cup {BackgroundThread}
TableBuilderThreads == {BackgroundThread}
LogThreads == ForegroundThreads \cup {BackgroundThread}

\* A JNIEnv is valid on the thread it belongs to and on no other.
EnvUb(env, t) == IF env = t THEN "none" ELSE "foreign-env"

\* The member functions that look their method up with GetMethodID(cls_, ...)
\* each time they run.  Compare uses the jmethodID the constructor looked up.
ClassRefCallbacks == {"FindShortestSeparator", "FindShortSuccessor", "Logv"}

\* cls_ holds the local reference FindClass / GetObjectClass returned to the
\* constructor.  A local reference dies when the native method that obtained
\* it, init, returns, and the engine makes these callbacks after init has
\* returned: reading cls_ then is a use of a dead reference, on any thread.
ClsUb(fn) == IF fn \in ClassRefCallbacks THEN "dead-local-ref" ELSE "none"

\* The undefined behaviour a callback fn runs into on thread t with env_ = env.
CallbackUb(fn, env, t) ==
    IF EnvUb(env, t) # "none" THEN EnvUb(env, t) ELSE ClsUb(fn)

\* A member function of JavaComparator or JavaLogger runs on thread t and
\* makes its JNI calls through the env_ the object was constructed with.
Callback(fn, env, t) ==
    /\ ~crashed
    /\ "db" \in live
    /\ \/ /\ cb' = [fn |-> fn, thread |-> t, env |-> env,
                    ub |-> CallbackUb(fn, env, t)]
          /\ UNCHANGED <<res, crashed>>
       \/ /\ CallbackUb(fn, env, t) # "none"
          /\ crashed' = TRUE
          /\ res' = ResultUb(fn, <<>>, NoRet, NoCall, CallbackUb(fn, env, t))
          /\ UNCHANGED cb
    /\ UNCHANGED <<dbVars, live, iterVars, batchVars, driveVars, thrVars,
                   cmpEnv, logEnv>>

\* JavaComparator::Compare, called by the engine on thread t
Engine_Compare(t) ==
    /\ nativeComparator # Null
    /\ Callback("Compare", cmpEnv, t)

\* JavaComparator::FindShortestSeparator, called by the engine on thread t
Engine_FindShortestSeparator(t) ==
    /\ nativeComparator # Null
    /\ Callback("FindShortestSeparator", cmpEnv, t)

\* JavaComparator::FindShortSuccessor, called by the engine on thread t
Engine_FindShortSuccessor(t) ==
    /\ nativeComparator # Null
    /\ Callback("FindShortSuccessor", cmpEnv, t)

\* JavaLogger::Logv, called by the engine on thread t
Engine_Logv(t) ==
    /\ nativeLogger # Null
    /\ Callback("Logv", logEnv, t)

\* ------------------------------------------------------- engine iterator
\* The keys an Iterator's snapshot holds.
LiveKeys(i) == {k \in Keys : i.snap[k] # Absent}

\* The least / greatest key of S in the order of comparator cmp, NoPos if none.
MinKey(cmp, S) ==
    IF S = {} THEN NoPos
    ELSE CHOOSE k \in S : \A j \in S : Compare(cmp, k, j) <= 0
MaxKey(cmp, S) ==
    IF S = {} THEN NoPos
    ELSE CHOOSE k \in S : \A j \in S : Compare(cmp, k, j) >= 0

\* Iterator::Valid
Valid(i) == i.pos # NoPos

\* Where each positioning call leaves an Iterator that meets no error.
SeekToFirstPos(i) == MinKey(i.cmp, LiveKeys(i))
SeekToLastPos(i) == MaxKey(i.cmp, LiveKeys(i))
SeekPos(i, target) ==
    MinKey(i.cmp, {k \in LiveKeys(i) : Compare(i.cmp, k, target) >= 0})
NextPos(i) == MinKey(i.cmp, {k \in LiveKeys(i) : Compare(i.cmp, k, i.pos) > 0})
PrevPos(i) == MaxKey(i.cmp, {k \in LiveKeys(i) : Compare(i.cmp, k, i.pos) < 0})

\* A positioning call either lands on p, or reads a corrupt block: then the
\* Iterator is not Valid() and its status() is Corruption.
Positioned(i, p) ==
    {[i EXCEPT !.pos = p, !.status = "OK"],
     [i EXCEPT !.pos = NoPos, !.status = "Corruption"]}

\* A step keeps an earlier error.
Stepped(i, p) ==
    {[i EXCEPT !.pos = p], [i EXCEPT !.pos = NoPos, !.status = "Corruption"]}

\* ------------------------------------------------------------- DBIterator
\* throw_it_not_open
throw_it_not_open == <<"IllegalStateException: DB iterator is not open">>

\* An Iterator outlives its DB only as a dangling object.
ItUb == IF "db" \in live THEN "none" ELSE "use-after-free"

\* A DBIterator call that throws because the handle is 0.
ItNotOpen(op, ret) ==
    /\ res' = Result(op, throw_it_not_open, ret, NoCall)
    /\ UNCHANGED <<dbVars, live, crashed, iterVars, batchVars>>

\* A DBIterator call that leaves the native Iterator as i2 and hands back ret.
ItCall(op, fn, i2, ret, ub) ==
    /\ it' = i2
    /\ res' = ResultUb(op, <<>>, ret, Call(fn, "none", itHandle), ub)
    /\ UNCHANGED <<dbVars, live, crashed, itExists, itHandle, itClosed, itDeletes,
                   batchVars>>

\* The process may die when the call runs into undefined behaviour.
ItCrash(op, fn, ub) == ub # "none" /\ Crash(op, Call(fn, "none", itHandle), ub)

\* DBIterator_close as it would be without the final SetLongField(nativeHandle, 0).
DBIterator_close_keeps_handle ==
    /\ ~crashed
    /\ UNCHANGED <<thrVars, cbVars>>
    /\ itExists
    /\ IF itHandle # Null
       THEN /\ live' = live \ {"iter"}
            /\ itDeletes' = itDeletes + 1
            /\ it' = NoIter
            /\ res' = ResultUb("it.close", <<>>, NoRet,
                               Call("~Iterator", "none", itHandle),
                               IF itDeletes > 0 THEN "use-after-free" ELSE ItUb)
            /\ drive' = "none" /\ step' = "none" /\ out' = <<>>
       ELSE /\ res' = Result("it.close", <<>>, NoRet, NoCall)
            /\ UNCHANGED <<live, itDeletes, it, driveVars>>
    /\ itClosed' = TRUE
    /\ UNCHANGED <<dbVars, crashed, itExists, itHandle, batchVars>>

\* Java_org_tron_leveldb_DBIterator_close
DBIterator_close ==
    /\ ~crashed
    /\ UNCHANGED <<thrVars, cbVars>>
    /\ itExists
    /\ \/ /\ IF itHandle # Null
             THEN /\ live' = live \ {"iter"}
                  /\ itDeletes' = itDeletes + 1
                  /\ it' = NoIter
                  /\ res' = ResultUb("it.close", <<>>, NoRet,
                                     Call("~Iterator", "none", itHandle), ItUb)
                  /\ drive' = "none" /\ step' = "none" /\ out' = <<>>
             ELSE /\ res' = Result("it.close", <<>>, NoRet, NoCall)
                  /\ UNCHANGED <<live, itDeletes, it, driveVars>>
          /\ itHandle' = Null
          /\ itClosed' = TRUE
          /\ UNCHANGED <<dbVars, crashed, itExists, batchVars>>
       \/ itHandle # Null /\ ItCrash("it.close", "~Iterator", ItUb)

\* Java_org_tron_leveldb_DBIterator_seekToFirst
DBIterator_seekToFirst ==
    /\ ~crashed
    /\ UNCHANGED <<thrVars, cbVars>>
    /\ itExists
    /\ IF itHandle = Null
       THEN ItNotOpen("seekToFirst", NoRet) /\ UNCHANGED driveVars
       ELSE \/ \E i2 \in Positioned(it, SeekToFirstPos(it)) :
                 /\ ItCall("seekToFirst", "SeekToFirst", i2, NoRet, ItUb)
                 /\ drive' = "fwd" /\ step' = "seeked" /\ out' = <<>>
            \/ ItCrash("seekToFirst", "SeekToFirst", ItUb)

\* Java_org_tron_leveldb_DBIterator_seekToLast
DBIterator_seekToLast ==
    /\ ~crashed
    /\ UNCHANGED <<thrVars, cbVars>>
    /\ itExists
    /\ IF itHandle = Null
       THEN ItNotOpen("seekToLast", NoRet) /\ UNCHANGED driveVars
       ELSE \/ \E i2 \in Positioned(it, SeekToLastPos(it)) :
                 /\ ItCall("seekToLast", "SeekToLast", i2, NoRet, ItUb)
                 /\ drive' = "bwd" /\ step' = "seeked" /\ out' = <<>>
            \/ ItCrash("seekToLast", "SeekToLast", ItUb)

\* Java_org_tron_leveldb_DBIterator_seek
DBIterator_seek ==
    /\ ~crashed
    /\ UNCHANGED <<thrVars, cbVars>>
    /\ itExists
    /\ IF itHandle = Null
       THEN ItNotOpen("seek", NoRet) /\ UNCHANGED driveVars
       ELSE \/ \E jk \in JKeys : \E i2 \in Positioned(it, SeekPos(it, ToSlice(jk))) :
                 /\ ItCall("seek", "Seek", i2, NoRet, ItUb)
                 /\ drive' = "none" /\ step' = "none" /\ out' = <<>>
            \/ ItCrash("seek", "Seek", ItUb)

\* Java_org_tron_leveldb_DBIterator_hasNext
DBIterator_hasNext ==
    /\ ~crashed
    /\ UNCHANGED <<thrVars, cbVars>>
    /\ itExists
    /\ IF itHandle = Null
       THEN ItNotOpen("hasNext", RetBool(FALSE)) /\ UNCHANGED driveVars
       ELSE \/ /\ ItCall("hasNext", "Valid", it, RetBool(Valid(it)), ItUb)
               /\ IF drive = "fwd" /\ step \in {"seeked", "stepped"}
                  THEN /\ step' = IF Valid(it) THEN "ready" ELSE "done"
                       /\ UNCHANGED <<drive, out>>
                  ELSE UNCHANGED driveVars
            \/ ItCrash("hasNext", "Valid", ItUb)

\* Java_org_tron_leveldb_DBIterator_hasPrev
DBIterator_hasPrev ==
    /\ ~crashed
    /\ UNCHANGED <<thrVars, cbVars>>
    /\ itExists
    /\ IF itHandle = Null
       THEN ItNotOpen("hasPrev", RetBool(FALSE)) /\ UNCHANGED driveVars
       ELSE \/ /\ ItCall("hasPrev", "Valid", it, RetBool(Valid(it)), ItUb)
               /\ IF drive = "bwd" /\ step \in {"seeked", "stepped"}
                  THEN /\ step' = IF Valid(it) THEN "ready" ELSE "done"
                       /\ UNCHANGED <<drive, out>>
                  ELSE UNCHANGED driveVars
            \/ ItCrash("hasPrev", "Valid", ItUb)

\* The undefined behaviour of reading key()/value() of, or stepping, an
\* Iterator that is not Valid(), on top of that of a dangling Iterator.
AccessUb(i) ==
    IF ItUb # "none" THEN ItUb
    ELSE IF ~Valid(i) THEN "invalid-iterator" ELSE "none"

\* What key()/value() of an Iterator that is not Valid() may read.
GarbageEntries == {RetEntry(<<>>, <<>>), RetEntry(JKeyList[1], JValueList[1])}

\* The entry key()/value() hand to the caller as two byte[].
CurrentEntries(i) ==
    IF Valid(i)
    THEN {RetEntry(ToJByteArray(i.pos), ToJByteArray(i.snap[i.pos]))}
    ELSE GarbageEntries

\* The Iterator after Next() / Prev(); stepping one that is not Valid() leaves
\* it not Valid() when the process survives.
\* next as it would be without its call of iter->Next().
AfterNext_no_step(i) == {i}
AfterNext(i) == IF Valid(i) THEN Stepped(i, NextPos(i)) ELSE {i}
AfterPrev(i) == IF Valid(i) THEN Stepped(i, PrevPos(i)) ELSE {i}

\* Java_org_tron_leveldb_DBIterator_next
DBIterator_next ==
    /\ ~crashed
    /\ UNCHANGED <<thrVars, cbVars>>
    /\ itExists
    /\ IF itHandle = Null
       THEN ItNotOpen("next", RetNull) /\ UNCHANGED driveVars
       ELSE \/ \E e \in CurrentEntries(it), i2 \in AfterNext(it) :
                 /\ ItCall("next", "Next", i2, e, AccessUb(it))
                 /\ IF drive = "fwd" /\ step = "ready"
                    THEN /\ out' = Append(out, e.a)
                         /\ step' = "stepped"
                         /\ UNCHANGED drive
                    ELSE drive' = "none" /\ step' = "none" /\ out' = <<>>
            \/ ItCrash("next", "Next", AccessUb(it))

\* Java_org_tron_leveldb_DBIterator_peekNext
DBIterator_peekNext ==
    /\ ~crashed
    /\ UNCHANGED <<thrVars, cbVars>>
    /\ itExists
    /\ IF itHandle = Null
       THEN ItNotOpen("peekNext", RetNull) /\ UNCHANGED driveVars
       ELSE \/ \E e \in CurrentEntries(it) :
                 /\ ItCall("peekNext", "key", it, e, AccessUb(it))
                 /\ UNCHANGED driveVars
            \/ ItCrash("peekNext", "key", AccessUb(it))

\* Java_org_tron_leveldb_DBIterator_prev
DBIterator_prev ==
    /\ ~crashed
    /\ UNCHANGED <<thrVars, cbVars>>
    /\ itExists
    /\ IF itHandle = Null
       THEN ItNotOpen("prev", NoRet) /\ UNCHANGED driveVars
       ELSE \/ \E i2 \in AfterPrev(it) :
                 /\ ItCall("prev", "Prev", i2, NoRet, AccessUb(it))
                 /\ IF drive = "bwd" /\ step = "peeked"
                    THEN step' = "stepped" /\ UNCHANGED <<drive, out>>
                    ELSE drive' = "none" /\ step' = "none" /\ out' = <<>>
            \/ ItCrash("prev", "Prev", AccessUb(it))

\* Java_org_tron_leveldb_DBIterator_peekPrev
DBIterator_peekPrev ==
    /\ ~crashed
    /\ UNCHANGED <<thrVars, cbVars>>
    /\ itExists
    /\ IF itHandle = Null
       THEN ItNotOpen("peekPrev", RetNull) /\ UNCHANGED driveVars
       ELSE \/ \E e \in CurrentEntries(it) :
                 /\ ItCall("peekPrev", "key", it, e, AccessUb(it))
                 /\ IF drive = "bwd" /\ step = "ready"
                    THEN /\ out' = Append(out, e.a)
                         /\ step' = "peeked"
                         /\ UNCHANGED drive
                    ELSE UNCHANGED driveVars
            \/ ItCrash("peekPrev", "key", AccessUb(it))

\* -------------------------------------------------------------- WriteBatch
\* throw_batch_not_open
throw_batch_not_open == <<"IllegalStateException: WriteBatch is not open">>

\* A WriteBatch call that throws because the handle is 0.
BatchNotOpen(op) ==
    /\ res' = Result(op, throw_batch_not_open, NoRet, NoCall)
    /\ UNCHANGED <<dbVars, live, crashed, iterVars, batchVars>>

\* Java_org_tron_leveldb_WriteBatch_close
WriteBatch_close ==
    /\ ~crashed
    /\ UNCHANGED <<thrVars, cbVars>>
    /\ batchExists
    /\ IF batchHandle # Null
       THEN /\ live' = live \ {"batch"}
            /\ batchDeletes' = batchDeletes + 1
            /\ wb' = EmptyBatch
            /\ res' = Result("batch.close", <<>>, NoRet,
                             Call("~WriteBatch", "none", batchHandle))
       ELSE /\ res' = Result("batch.close", <<>>, NoRet, NoCall)
            /\ UNCHANGED <<live, batchDeletes, wb>>
    /\ batchHandle' = Null
    /\ batchClosed' = TRUE
    /\ UNCHANGED <<dbVars, crashed, iterVars, batchExists, driveVars>>

\* Java_org_tron_leveldb_WriteBatch_put
WriteBatch_put ==
    /\ ~crashed
    /\ UNCHANGED <<thrVars, cbVars>>
    /\ batchExists
    /\ IF batchHandle = Null
       THEN BatchNotOpen("batch.put")
       ELSE /\ \E jk \in JKeys, jv \in JValues :
                 wb' = [wb EXCEPT ![ToSlice(jk)] = ToSlice(jv)]
            /\ res' = Result("batch.put", <<>>, NoRet,
                             Call("WriteBatch::Put", "none", batchHandle))
            /\ UNCHANGED <<dbVars, live, crashed, iterVars, batchExists, batchHandle,
                           batchClosed, batchDeletes>>
    /\ UNCHANGED driveVars

\* Java_org_tron_leveldb_WriteBatch_delete
WriteBatch_delete ==
    /\ ~crashed
    /\ UNCHANGED <<thrVars, cbVars>>
    /\ batchExists
    /\ IF batchHandle = Null
       THEN BatchNotOpen("batch.delete")
       ELSE /\ \E jk \in JKeys :
                 wb' = [wb EXCEPT ![ToSlice(jk)] = Absent]
            /\ res' = Result("batch.delete", <<>>, NoRet,
                             Call("WriteBatch::Delete", "none", batchHandle))
            /\ UNCHANGED <<dbVars, live, crashed, iterVars, batchExists, batchHandle,
                           batchClosed, batchDeletes>>
    /\ UNCHANGED driveVars

Next ==
    \/ DB_init
    \/ DB_close
    \/ DB_put
    \/ DB_putSync
    \/ DB_get
    \/ DB_delete
    \/ DB_getProperty
    \/ DB_createWriteBatch
    \/ DB_write
    \/ DB_iterator
    \/ DBIterator_close
    \/ DBIterator_seekToFirst
    \/ DBIterator_seekToLast
    \/ DBIterator_seek
    \/ DBIterator_hasNext
    \/ DBIterator_hasPrev
    \/ DBIterator_next
    \/ DBIterator_peekNext
    \/ DBIterator_prev
    \/ DBIterator_peekPrev
    \/ WriteBatch_close
    \/ WriteBatch_put
    \/ WriteBatch_delete

Spec == Init /\ [][Next]_vars

\* The store object: every native method of DB, and the closing of a batch.
NextStore ==
    \/ DB_init
    \/ DB_close
    \/ DB_put
    \/ DB_putSync
    \/ DB_get
    \/ DB_delete
    \/ DB_getProperty
    \/ DB_createWriteBatch
    \/ DB_write
    \/ DB_iterator
    \/ WriteBatch_close

SpecStore == Init /\ [][NextStore]_vars

\* Write batches: filled, written to the store, read back, closed.
NextBatch ==
    \/ DB_init
    \/ DB_get
    \/ DB_createWriteBatch
    \/ DB_write
    \/ WriteBatch_close
    \/ WriteBatch_put
    \/ WriteBatch_delete

SpecBatch == Init /\ [][NextBatch]_vars

\* One iterator over a store opened on the contents the disk holds.
NextIter ==
    \/ DB_init
    \/ DB_iterator
    \/ DBIterator_close
    \/ DBIterator_seekToFirst
    \/ DBIterator_seekToLast
    \/ DBIterator_seek
    \/ DBIterator_hasNext
    \/ DBIterator_hasPrev
    \/ DBIterator_next
    \/ DBIterator_peekNext
    \/ DBIterator_prev
    \/ DBIterator_peekPrev

SpecIter == Init /\ [][NextIter]_vars

\* The two handle objects a store gives out, side by side.
NextHandles ==
    \/ NextIter
    \/ DB_createWriteBatch
    \/ WriteBatch_close
    \/ WriteBatch_put
    \/ WriteBatch_delete

SpecHandles == Init /\ [][NextHandles]_vars

\* A store that hands out an iterator and may be closed while the iterator
\* object is still in use.
NextIterClose ==
    \/ NextIter
    \/ DB_close

SpecIterClose == Init /\ [][NextIterClose]_vars

\* Two threads inside methods of one DB object, one statement at a time.
NextThreads ==
    \/ DB_init
    \/ \E t \in Threads : \E op \in ThreadMethods : DB_enter(t, op)
    \/ \E t \in Threads : DB_close_delete(t)
    \/ \E t \in Threads : DB_close_set(t)
    \/ \E t \in Threads : DB_get_call(t)
    \/ \E t \in Threads : DB_put_call(t)
    \/ \E t \in Threads : DB_putSync_call(t)
    \/ \E t \in Threads : DB_write_call(t)
    \/ \E t \in Threads : DB_createWriteBatch_call(t)
    \/ WriteBatch_put
    \/ \E t \in Threads : DB_delete_call(t)
    \/ \E t \in Threads : DB_getProperty_call(t)
    \/ \E t \in Threads : DB_iterator_call(t)

SpecThreads == Init /\ [][NextThreads]_vars

\* An open store whose engine calls back into the comparator and the logger
\* it was opened with.
NextCallbacks ==
    \/ DB_init
    \/ DB_close
    \/ \E t \in CompareThreads : Engine_Compare(t)
    \/ \E t \in TableBuilderThreads : Engine_FindShortestSeparator(t)
    \/ \E t \in TableBuilderThreads : Engine_FindShortSuccessor(t)
    \/ \E t \in LogThreads : Engine_Logv(t)

SpecCallbacks == Init /\ [][NextCallbacks]_vars

\* ------------------------------------------------------------------ claims
\* The native methods of DB that work on an open store.
StoreOps == {"iterator", "put", "putSync", "get", "delete", "createWriteBatch",
             "write", "getProperty"}

\* C1: once DB.close has returned, every store operation (iterator, put with
\* and without sync, get, delete, createWriteBatch, write, getProperty) throws
\* IllegalStateException "DB is not open", exactly once, and makes no engine
\* call, whatever was called in between.
C1_ClosedStoreRejects ==
    (closed /\ res.op \in StoreOps) =>
        /\ res.exc = <<"IllegalStateException: DB is not open">>
        /\ res.call = NoCall
        /\ res.ub = "none"

\* C1 witness: a write on a store that was opened, handed out a batch and was
\* then closed.
C1_Witness ==
    /\ closed
    /\ openStatus = "OK"
    /\ batchExists
    /\ res.op = "write"
    /\ res.exc = <<"IllegalStateException: DB is not open">>

\* C2: when the engine's Put, Delete or Write answers with a status that is
\* not OK, put, putSync, delete and write throw an exception.
C2_FailedWriteRaises ==
    (/\ res.op \in {"put", "putSync", "delete", "write"}
     /\ res.call.fn \in {"Put", "Delete", "Write"}
     /\ res.call.status \notin {"OK", "none"})
        => res.exc # <<>>

\* The native resources init acquires for a store.
InitResources == {"db", "cache", "comparator", "logger"}

\* C3: after DB.close has returned, none of the native objects init created
\* (engine DB, block cache, comparator wrapper, logger wrapper) is still
\* allocated and none of their global references is still held.
C3_CloseReleasesAll ==
    closed => (live \cap InitResources = {} /\ globalRefs = {})

\* C4: hasNext / hasPrev do not answer "false" without an exception while the
\* engine iterator's status is not OK: an iteration cut short by corruption is
\* not reported as the normal end of the data.
C4_CorruptionSurfaced ==
    (/\ res.op \in {"hasNext", "hasPrev"}
     /\ res.call.fn = "Valid"
     /\ it.status # "OK")
        => ~(res.ret = RetBool(FALSE) /\ res.exc = <<>>)

\* C5: a get that reached the engine has one of three outcomes, by the status
\* of DB::Get: OK - no exception and a byte[] holding the bytes the store has
\* for the key; NotFound - no exception and null; anything else - exactly one
\* exception and null.
C5_GetOutcomes ==
    (res.op = "get" /\ res.call.fn = "Get") =>
        /\ res.call.status = "OK" =>
              /\ res.exc = <<>>
              /\ res.ret.kind = "bytes"
              /\ ToSlice(res.ret.a) = disk.data[res.call.key]
              /\ \A i \in 1..Len(res.ret.a) : res.ret.a[i] \in -128..127
        /\ res.call.status = "NotFound" =>
              /\ res.exc = <<>>
              /\ res.ret = RetNull
        /\ res.call.status \notin {"OK", "NotFound"} =>
              /\ Len(res.exc) = 1
              /\ res.ret = RetNull

\* C5 witness: a get of a key the store holds with a byte above 127 in its
\* value, answered OK.
C5_Witness ==
    /\ res.op = "get"
    /\ res.call.status = "OK"
    /\ res.ret.kind = "bytes"
    /\ \E i \in 1..Len(res.ret.a) : res.ret.a[i] < 0

\* The statuses with which DB::Open fails.
OpenFailures == {"InvalidArgument", "IOError", "Corruption", "NotFound"}

\* C6: init ends in one of two ways.  Open answered OK: no exception, and
\* nativeDb holds the opened engine.  Open failed: exactly one exception,
\* nativeDb stays 0, and every store operation afterwards throws
\* IllegalStateException without calling the engine.
C6_InitOutcomes ==
    /\ res.op = "init" =>
          \/ /\ openStatus = "OK"
             /\ res.exc = <<>>
             /\ nativeDb = DbPtr
             /\ "db" \in live
          \/ /\ openStatus \in OpenFailures
             /\ Len(res.exc) = 1
             /\ nativeDb = Null
             /\ "db" \notin live
    /\ (openStatus \in OpenFailures /\ res.op \in StoreOps) =>
          /\ res.exc = <<"IllegalStateException: DB is not open">>
          /\ res.call = NoCall

\* C6 witness: a put on a store object whose init failed on an I/O error.
C6_Witness ==
    /\ openStatus = "IOError"
    /\ ~closed
    /\ res.op = "put"
    /\ res.exc = <<"IllegalStateException: DB is not open">>

\* C7: the leveldb::Options that reach DB::Open carry every option of the
\* managed Options object unchanged, errorIfExists included.
C7_OptionsForwarded ==
    phase = "inited" =>
        /\ openArgs.create_if_missing = joptions.createIfMissing
        /\ openArgs.error_if_exists = joptions.errorIfExists
        /\ openArgs.comparator = ComparatorOf(joptions)
        /\ openArgs.write_buffer_size = joptions.writeBufferSize
        /\ openArgs.block_size = joptions.blockSize
        /\ openArgs.block_cache_capacity = joptions.cacheSize
        /\ openArgs.max_open_files = joptions.maxOpenFiles
        /\ openArgs.compression = joptions.compressionType
        /\ openArgs.paranoid_checks = joptions.paranoidChecks
        /\ openArgs.info_log = joptions.logger

\* The keys of a scan, as the engine sees them.
ScanKeys(s) == [j \in 1..Len(s) |-> ToSlice(s[j])]

\* s lists keys of iterator i's snapshot in strictly increasing order of its
\* comparator (so none twice).
Increasing(s, i) ==
    /\ \A j \in 1..Len(s) : s[j] \in LiveKeys(i)
    /\ \A j, k \in 1..Len(s) : j < k => Compare(i.cmp, s[j], s[k]) < 0

\* s is the whole snapshot of iterator i in strictly increasing order.
IsForwardScan(s, i) ==
    /\ Increasing(s, i)
    /\ {s[j] : j \in 1..Len(s)} = LiveKeys(i)

Reverse(s) == [j \in 1..Len(s) |-> s[Len(s) + 1 - j]]

\* C8: a forward scan (seekToFirst, then next while hasNext answers true)
\* returns keys in strictly increasing comparator order, and once hasNext
\* answers false on an iterator whose status is OK it has returned every key
\* of the dataset exactly once; a backward scan (seekToLast, then peekPrev and
\* prev while hasPrev answers true) returns the reverse of that sequence.
C8_ScanOrder ==
    /\ drive = "fwd" =>
          /\ Increasing(ScanKeys(out), it)
          /\ (step = "done" /\ it.status = "OK") => IsForwardScan(ScanKeys(out), it)
    /\ drive = "bwd" =>
          /\ Increasing(Reverse(ScanKeys(out)), it)
          /\ (step = "done" /\ it.status = "OK") =>
                IsForwardScan(Reverse(ScanKeys(out)), it)

\* C8 witness: a backward scan over every key of the key space, run to its
\* end, under the caller's comparator.
C8_Witness ==
    /\ drive = "bwd"
    /\ step = "done"
    /\ it.status = "OK"
    /\ it.cmp = "java"
    /\ Len(out) = MaxKeys

\* C8 witness of the forward half: a completed forward scan of every key.
C8_WitnessForward ==
    /\ drive = "fwd"
    /\ step = "done"
    /\ it.status = "OK"
    /\ Len(out) = MaxKeys

\* C9: a write on an open store with a WriteBatch that has been closed throws
\* IllegalStateException and hands no batch to DB::Write.
C9_ClosedBatchRejected ==
    (res.op = "write" /\ nativeDb # Null /\ batchClosed) =>
        /\ Len(res.exc) = 1
        /\ res.call = NoCall
        /\ ~crashed

\* The native methods of DBIterator and WriteBatch other than close.
IterOps == {"seekToFirst", "seekToLast", "seek", "hasNext", "next", "peekNext",
            "hasPrev", "prev", "peekPrev"}
BatchOps == {"batch.put", "batch.delete"}

\* C10: for the iterator handle and for the batch handle: the native object is
\* deleted at most once; after close the handle is 0; no close throws, and a
\* close of a closed handle touches nothing; every other method called after
\* close throws IllegalStateException and does not touch the native object.
C10_HandleLifecycle ==
    /\ itDeletes <= 1
    /\ batchDeletes <= 1
    /\ itClosed => (itHandle = Null /\ "iter" \notin live)
    /\ batchClosed => (batchHandle = Null /\ "batch" \notin live)
    /\ res.op \in {"it.close", "batch.close"} =>
          (res.exc = <<>> /\ (res.call = NoCall \/ res.call.arg # Null))
    /\ (itClosed /\ res.op \in IterOps) =>
          /\ res.exc = <<"IllegalStateException: DB iterator is not open">>
          /\ res.call = NoCall
          /\ it = NoIter
    /\ (batchClosed /\ res.op \in BatchOps) =>
          /\ res.exc = <<"IllegalStateException: WriteBatch is not open">>
          /\ res.call = NoCall
          /\ wb = EmptyBatch

\* C10 witness: both handles closed after use, each native object deleted
\* once, and a next called on the closed iterator.
C10_Witness ==
    /\ itClosed /\ itDeletes = 1
    /\ batchClosed /\ batchDeletes = 1
    /\ res.op = "next"
    /\ res.exc = <<"IllegalStateException: DB iterator is not open">>

\* C10 witness of the batch half: a put on a batch that was filled and closed.
C10_WitnessBatch ==
    /\ batchClosed /\ batchDeletes = 1
    /\ res.op = "batch.put"
    /\ res.exc = <<"IllegalStateException: WriteBatch is not open">>

\* C11: once DB.close has deleted the engine, every operation on an iterator
\* the store gave out, other than the iterator's own close, throws
\* IllegalState and makes no call into the engine's iterator.
C11_IteratorRejectsAfterStoreClose ==
    (closed /\ itExists /\ res.op \in IterOps) =>
        /\ res.exc = throw_it_not_open
        /\ res.call = NoCall
        /\ res.ub = "none"

\* The operations that read the current entry or step the engine iterator.
AccessOps == {"next", "peekNext", "prev", "peekPrev"}

\* C13: next, peekNext, prev and peekPrev read key() and value() and call
\* Next() or Prev() only on an engine iterator that is Valid.
C13_AccessOnlyWhileValid ==
    (res.op \in AccessOps /\ res.call # NoCall /\ "db" \in live) =>
        res.ub # "invalid-iterator"

\* The calls a store method makes into the engine DB.
DbCalls == {"Get", "Put", "Delete", "Write", "GetProperty", "NewIterator"}

\* C12: however DB.close on one thread interleaves with a store method on
\* another thread, the engine DB is deleted at most once and nothing calls
\* into it after it has been deleted.
C12_CloseRaceFree ==
    /\ dbDeletes <= 1
    /\ res.ub # "double-free"
    /\ res.call.fn \in DbCalls => res.ub # "use-after-free"

\* C14: every callback into the comparator or the logger makes its JNI calls
\* through the JNIEnv of the thread the callback runs on.
C14_CallbackUsesOwnEnv ==
    /\ cb.fn # "none" => cb.env = cb.thread
    /\ res.ub # "foreign-env"
====
